---------------------------- MODULE Spec2Model ----------------------------
(***************************************************************************)
(* Model of the settlement-file reconciliation pipeline: the Celery task   *)
(* process_uploaded_files (tasks.py), the chunk processor                  *)
(* process_dataframe_chunk, the materializer/committer                     *)
(* process_transactions, the result slot 'latest_transaction_results' in   *)
(* the cache, and its reader transaction_results_view (views.py).          *)
(*                                                                         *)
(* Strings whose characters the code inspects (column headers, amount and  *)
(* date cells) are sequences of one-character strings.  Python values are  *)
(* tagged records: [t |-> "None"], [t |-> "str", s |-> chars],             *)
(* [t |-> "float", f |-> hundredths], [t |-> "nan"],                       *)
(* [t |-> "ts", d |-> <<y, m, d>>], [t |-> "NaT"], [t |-> "int", i |-> n]. *)
(***************************************************************************)
EXTENDS Integers, Sequences, FiniteSets, TLC

VARIABLES
    job,        \* the running process_uploaded_files task: arguments and position
    fs,         \* the temporary files of the job's file_paths that exist (indices)
    db,         \* number of Transaction rows in the persistent store
    cache,      \* the slot 'latest_transaction_results' (None = absent)
    workers,    \* concurrent tasks inside a chunk call: the results each is to publish
    lastPub,    \* history: which worker ran the latest cache.set, with what value
    call,       \* a direct call of process_dataframe_chunk and what it did
    response    \* the response transaction_results_view is rendering

vars == <<job, fs, db, cache, workers, lastPub, call, response>>

-----------------------------------------------------------------------------
(* Bounds of the model.                                                    *)

\* files per job, chunks per CSV file, rows per chunk
MaxFiles == 2
MaxChunks == 2
MaxRows == 2
\* tasks that are inside a chunk call at the same time
NumWorkers == 2

\* the longest header string cleaned
MaxLen == 3

-----------------------------------------------------------------------------
(* Python values.                                                          *)

None == [t |-> "None"]
NaN == [t |-> "nan"]
NaT == [t |-> "NaT"]
Str(s) == [t |-> "str", s |-> s]
Float(f) == [t |-> "float", f |-> f]
PyInt(i) == [t |-> "int", i |-> i]
Timestamp(d) == [t |-> "ts", d |-> d]
DataFrameObject == [t |-> "DataFrame"]

Range(s) == {s[i] : i \in 1..Len(s)}

-----------------------------------------------------------------------------
(* tasks.py: the registries.                                               *)

BANK_CODE_MAPPING == ("hdfc" :> 101) @@ ("icici" :> 102) @@ ("karur_vysya" :> 40)

fld_MID == <<"M", "I", "D">>
fld_Order_Id == <<"O", "r", "d", "e", "r", "_", "I", "d">>
fld_Bank_Ref_id == <<"B", "a", "n", "k", "_", "R", "e", "f", "_", "i", "d">>
fld_Payable_Merchant == <<"P", "a", "y", "a", "b", "l", "e", "_", "M", "e", "r", "c", "h", "a", "n", "t">>
fld_Transaction_Date == <<"T", "r", "a", "n", "s", "a", "c", "t", "i", "o", "n", "_", "D", "a", "t", "e">>
fld_Settlement_Date == <<"S", "e", "t", "t", "l", "e", "m", "e", "n", "t", "_", "D", "a", "t", "e">>
fld_Refund_Order_Id == <<"R", "e", "f", "u", "n", "d", "_", "O", "r", "d", "e", "r", "_", "I", "d">>
fld_Transaction_Id == <<"T", "r", "a", "n", "s", "a", "c", "t", "i", "o", "n", "_", "I", "d">>
fld_Arn_No == <<"A", "r", "n", "_", "N", "o">>
fld_Card_No == <<"C", "a", "r", "d", "_", "N", "o">>
fld_Card_type == <<"C", "a", "r", "d", "_", "t", "y", "p", "e">>
fld_Tid == <<"T", "i", "d">>
fld_Refund_Request_Date == <<"R", "e", "f", "u", "n", "d", "_", "R", "e", "q", "u", "e", "s", "t", "_", "D", "a", "t", "e">>
fld_Credit_Debit_Date == <<"C", "r", "e", "d", "i", "t", "_", "D", "e", "b", "i", "t", "_", "D", "a", "t", "e">>
fld_File_upload_Date == <<"F", "i", "l", "e", "_", "u", "p", "l", "o", "a", "d", "_", "D", "a", "t", "e">>
fld_CREDIT_DEBIT_AMOUNT == <<"C", "R", "E", "D", "I", "T", "_", "D", "E", "B", "I", "T", "_", "A", "M", "O", "U", "N", "T">>

karur_vysya_booking ==
    [columns |-> <<
        <<"T", "X", "N", " ", "D", "A", "T", "E">>,
        <<"I", "R", "C", "T", "C", " ", "O", "R", "D", "E", "R", " ", "N", "O", ".">>,
        <<"B", "A", "N", "K", " ", "B", "O", "O", "K", "I", "N", "G", " ", "R", "E", "F", ".", "N", "O", ".">>,
        <<"B", "O", "O", "K", "I", "N", "G", " ", "A", "M", "O", "U", "N", "T">>,
        <<"C", "R", "E", "D", "I", "T", "E", "D", " ", "O", "N">>
     >>,
     column_mapping |->
        (<<"I", "R", "C", "T", "C", "O", "R", "D", "E", "R", "N", "O">> :> fld_Order_Id)
        @@ (<<"B", "A", "N", "K", "B", "O", "O", "K", "I", "N", "G", "R", "E", "F", "N", "O">> :> fld_Bank_Ref_id)
        @@ (<<"B", "O", "O", "K", "I", "N", "G", "A", "M", "O", "U", "N", "T">> :> fld_Payable_Merchant)
        @@ (<<"T", "X", "N", "D", "A", "T", "E">> :> fld_Transaction_Date)
        @@ (<<"C", "R", "E", "D", "I", "T", "E", "D", "O", "N">> :> fld_Settlement_Date)
    ]

karur_vysya_refund ==
    [columns |-> <<
        <<"R", "E", "F", "U", "N", "D", " ", "D", "A", "T", "E">>,
        <<"I", "R", "C", "T", "C", " ", "O", "R", "D", "E", "R", " ", "N", "O", ".">>,
        <<"B", "A", "N", "K", " ", "B", "O", "O", "K", "I", "N", "G", " ", "R", "E", "F", ".", "N", "O", ".">>,
        <<"B", "A", "N", "K", " ", "R", "E", "F", "U", "N", "D", " ", "R", "E", "F", ".", "N", "O", ".">>,
        <<"R", "E", "F", "U", "N", "D", " ", "A", "M", "O", "U", "N", "T">>,
        <<"D", "E", "B", "I", "T", "E", "D", " ", "O", "N">>
     >>,
     column_mapping |->
        (<<"I", "R", "C", "T", "C", "O", "R", "D", "E", "R", "N", "O">> :> fld_Order_Id)
        @@ (<<"R", "E", "F", "U", "N", "D", "A", "M", "O", "U", "N", "T">> :> fld_Payable_Merchant)
        @@ (<<"D", "E", "B", "I", "T", "E", "D", "O", "N">> :> fld_Settlement_Date)
        @@ (<<"R", "E", "F", "U", "N", "D", "D", "A", "T", "E">> :> fld_Transaction_Date)
        @@ (<<"B", "A", "N", "K", "B", "O", "O", "K", "I", "N", "G", "R", "E", "F", "N", "O">> :> fld_Bank_Ref_id)
        @@ (<<"B", "A", "N", "K", "R", "E", "F", "U", "N", "D", "R", "E", "F", "N", "O">> :> fld_Refund_Order_Id)
    ]

icici_both ==
    [columns |-> <<
        <<"P", "O", "S", "T", " ", "D", "A", "T", "E">>,
        <<"F", "T", " ", "N", "O", ".">>,
        <<"S", "E", "S", "S", "I", "O", "N", " ", "I", "D", " ", "[", "A", "S", "P", "D", "]">>,
        <<"A", "R", "N", " ", "N", "O">>,
        <<"M", "I", "D">>,
        <<"T", "R", "A", "N", "S", "A", "C", "T", "I", "O", "N", " ", "D", "A", "T", "E">>,
        <<"N", "E", "T", " ", "A", "M", "T">>,
        <<"C", "A", "R", "D", " ", "N", "U", "M", "B", "E", "R">>,
        <<"C", "A", "R", "D", " ", "T", "Y", "P", "E">>,
        <<"T", "I", "D">>
     >>,
     column_mapping |->
        (<<"T", "R", "A", "N", "S", "A", "C", "T", "I", "O", "N", "D", "A", "T", "E">> :> fld_Transaction_Date)
        @@ (<<"S", "E", "S", "S", "I", "O", "N", "I", "D">> :> fld_Order_Id)
        @@ (<<"F", "T", "N", "O">> :> fld_Transaction_Id)
        @@ (<<"A", "R", "N", "N", "O">> :> fld_Arn_No)
        @@ (<<"M", "I", "D">> :> fld_MID)
        @@ (<<"P", "O", "S", "T", "D", "A", "T", "E">> :> fld_Settlement_Date)
        @@ (<<"N", "E", "T", "A", "M", "T">> :> fld_Payable_Merchant)
        @@ (<<"C", "A", "R", "D", "N", "U", "M", "B", "E", "R">> :> fld_Card_No)
        @@ (<<"C", "A", "R", "D", "T", "Y", "P", "E">> :> fld_Card_type)
        @@ (<<"T", "I", "D">> :> fld_Tid)
    ]
CREDIT_CHARS == <<"C", "R", "E", "D", "I", "T">>

DEBIT_CHARS == <<"D", "E", "B", "I", "T">>

BANK_MAPPINGS ==
    ("karur_vysya" :> (("booking" :> karur_vysya_booking) @@ ("refund" :> karur_vysya_refund)))
    @@ ("icici" :> ("both" :> icici_both))

-----------------------------------------------------------------------------
(* tasks.py: clean_column_name.                                            *)

\* str.split() with no argument splits on runs of whitespace.
Whitespace == {" ", "\t", "\n"}

\* The position of the "]" that closes a match of \[.*?\] starting at s[1] = "[",
\* or 0 when there is none: "." does not match a newline, and the match is lazy.
RECURSIVE ClosePos(_, _)
ClosePos(s, j) ==
    IF j > Len(s) THEN 0
    ELSE IF s[j] = "]" THEN j
    ELSE IF s[j] = "\n" THEN 0
    ELSE ClosePos(s, j + 1)

\* column_cleaning_regex.sub('', s): leftmost non-overlapping matches removed.
RECURSIVE column_cleaning_regex_sub(_)
column_cleaning_regex_sub(s) ==
    IF s = <<>> THEN <<>>
    ELSE IF Head(s) = "[" /\ ClosePos(s, 2) > 0
         THEN column_cleaning_regex_sub(SubSeq(s, ClosePos(s, 2) + 1, Len(s)))
         ELSE <<Head(s)>> \o column_cleaning_regex_sub(Tail(s))

\* ''.join(part for part in s.split() if part)
JoinSplit(s) == SelectSeq(s, LAMBDA c : c \notin Whitespace)

\* ''.join(char for char in s if char not in ['.', '_'])
DropPunct(s) == SelectSeq(s, LAMBDA c : c \notin {".", "_"})

RECURSIVE LStrip(_)
LStrip(s) == IF s # <<>> /\ Head(s) \in Whitespace THEN LStrip(Tail(s)) ELSE s

RECURSIVE RStrip(_)
RStrip(s) ==
    IF s # <<>> /\ s[Len(s)] \in Whitespace THEN RStrip(SubSeq(s, 1, Len(s) - 1)) ELSE s

Strip(s) == RStrip(LStrip(s))

clean_column_name(column_name) ==
    Strip(DropPunct(JoinSplit(column_cleaning_regex_sub(column_name))))

-----------------------------------------------------------------------------
(* tasks.py: the type coercers.  A DataFrame is [columns, data]: the       *)
(* column labels and, per row, the cells in column order.                  *)

Digits == {"0", "1", "2", "3", "4", "5", "6", "7", "8", "9"}

DigitValue(c) == CHOOSE n \in 0..9 : <<"0", "1", "2", "3", "4", "5", "6", "7", "8", "9">>[n + 1] = c

IsDigits(s) == \A i \in 1..Len(s) : s[i] \in Digits

RECURSIVE Decimal(_)
Decimal(s) == IF s = <<>> THEN 0 ELSE 10 * Decimal(SubSeq(s, 1, Len(s) - 1)) + DigitValue(s[Len(s)])

FirstPos(s, c) == IF c \in Range(s) THEN CHOOSE i \in 1..Len(s) : s[i] = c /\ \A j \in 1..(i - 1) : s[j] # c ELSE 0

\* float(s) for a decimal literal, in hundredths; NaN when s is no number.
ParseFloat(s) ==
    LET neg == s # <<>> /\ Head(s) = "-"
        body == IF s # <<>> /\ Head(s) \in {"-", "+"} THEN Tail(s) ELSE s
        p == FirstPos(body, ".")
        ip == IF p = 0 THEN body ELSE SubSeq(body, 1, p - 1)
        fp == IF p = 0 THEN <<>> ELSE SubSeq(body, p + 1, Len(body))
        cents == Decimal(SubSeq(fp \o <<"0", "0">>, 1, 2))
        mag == 100 * Decimal(ip) + cents
    IN  IF IsDigits(ip) /\ IsDigits(fp) /\ Len(ip) + Len(fp) > 0
        THEN Float(IF neg THEN 0 - mag ELSE mag)
        ELSE NaN

\* Series.str.replace(',', '') followed by pd.to_numeric(errors='coerce'), per cell
to_numeric(v) ==
    IF v.t = "str" THEN ParseFloat(SelectSeq(v.s, LAMBDA c : c # ",")) ELSE NaN

DaysIn(m) == IF m = 2 THEN 28 ELSE IF m \in {4, 6, 9, 11} THEN 30 ELSE 31

\* pd.to_datetime(errors='coerce'), per cell, for cells written YYYY-MM-DD
to_datetime(v) ==
    IF v.t # "str" THEN NaT
    ELSE LET s == v.s
             shaped == /\ Len(s) = 10
                       /\ s[5] = "-" /\ s[8] = "-"
                       /\ IsDigits(SubSeq(s, 1, 4)) /\ IsDigits(SubSeq(s, 6, 7))
                       /\ IsDigits(SubSeq(s, 9, 10))
             y == Decimal(SubSeq(s, 1, 4))
             m == Decimal(SubSeq(s, 6, 7))
             d == Decimal(SubSeq(s, 9, 10))
         IN  IF shaped /\ y >= 1 /\ m \in 1..12 /\ d \in 1..DaysIn(m)
             THEN Timestamp(<<y, m, d>>)
             ELSE NaT

HasColumn(df, name) == name \in Range(df.columns)

ColumnIndex(df, name) == CHOOSE i \in 1..Len(df.columns) : df.columns[i] = name

\* df[column_name] = pd.to_numeric(df[column_name].str.replace(',', ''), errors='coerce')
convert_payable_to_float(df, column_name) ==
    [df EXCEPT !.data = [r \in 1..Len(df.data) |->
        [i \in 1..Len(df.columns) |->
            IF df.columns[i] = column_name THEN to_numeric(df.data[r][i])
            ELSE df.data[r][i]]]]

\* df[column_name] = pd.to_datetime(df[column_name], errors='coerce')
convert_column_to_datetime(df, column_name) ==
    [df EXCEPT !.data = [r \in 1..Len(df.data) |->
        [i \in 1..Len(df.columns) |->
            IF df.columns[i] = column_name THEN to_datetime(df.data[r][i])
            ELSE df.data[r][i]]]]

\* row.get(name)
RowGet(df, r, name) ==
    IF HasColumn(df, name) THEN df.data[r][ColumnIndex(df, name)] ELSE None

DatetimeFields ==
    {"Transaction_Date", "Settlement_Date", "Refund_Request_Date", "Credit_Debit_Date",
     "File_upload_Date"}

\* lines 108-112 with == in place of is: NaT == NaT is False, nothing is rewritten
handle_nat_by_equality(transaction_data) == transaction_data

handle_nat_in_datetime_fields(transaction_data) ==
    [k \in DOMAIN transaction_data |->
        IF k \in DatetimeFields /\ transaction_data[k] = NaT THEN None ELSE transaction_data[k]]

-----------------------------------------------------------------------------
(* models.py (not among the sources): Transaction.bulk_create_transactions *)
(* inside transaction.atomic().  store is how the persistent store answers *)
(* this call: "ok", "rejects" (the insert fails) or "unreachable".         *)

bulk_create_transactions(bulk_data_transactions, store) ==
    IF store = "ok"
    THEN [exc |-> "none", persisted |-> Len(bulk_data_transactions)]
    ELSE [exc |-> IF store = "rejects" THEN "IntegrityError" ELSE "OperationalError",
          persisted |-> 0]

-----------------------------------------------------------------------------
(* tasks.py: process_transactions.  What a call did is reported as         *)
(* [exc, commits, persisted, publishes]: the exception it raised ("none"   *)
(* for a normal return), the batches handed to bulk_create_transactions,   *)
(* the rows persisted, and the values passed to cache.set.                 *)

CREDIT == Str(CREDIT_CHARS)
DEBIT == Str(DEBIT_CHARS)

NoEffect == [exc |-> "none", commits |-> <<>>, persisted |-> 0, publishes |-> <<>>]

BankCode(bank_name) ==
    IF bank_name \in DOMAIN BANK_CODE_MAPPING THEN PyInt(BANK_CODE_MAPPING[bank_name]) ELSE None

\* the list of line 405 without 'icici'
banks_with_mid_override_short == {"hdfc", "indus"}

banks_with_mid_override == {"hdfc", "icici", "indus"}

\* the list of line 412 with 'chargeback' added to it
ValidTransactionTypes_with_chargeback == {"booking", "refund", "both", "chargeback"}

ValidTransactionTypes == {"booking", "refund", "both"}

\* the dict built at lines 417-465; the fields read by row.get from columns no
\* registered schema produces (always None) are left out, but for the dates
transaction_data(df_chunk, r, bank_name, transaction_type, merchant_name, bank_id) ==
    [Transaction_type |-> transaction_type,
     Merchant_Name |-> merchant_name,
     MID |-> IF bank_name \in banks_with_mid_override
             THEN RowGet(df_chunk, r, fld_MID) ELSE bank_id,
     Order_Id |-> RowGet(df_chunk, r, fld_Order_Id),
     Transaction_Date |-> RowGet(df_chunk, r, fld_Transaction_Date),
     Settlement_Date |-> RowGet(df_chunk, r, fld_Settlement_Date),
     Refund_Request_Date |-> IF HasColumn(df_chunk, fld_Refund_Request_Date)
                             THEN DataFrameObject ELSE None,
     Payable_Merchant |-> RowGet(df_chunk, r, fld_Payable_Merchant),
     Credit_Debit_Date |-> IF HasColumn(df_chunk, fld_Credit_Debit_Date)
                           THEN DataFrameObject ELSE None,
     Bank_Name |-> bank_name,
     File_upload_Date |-> IF HasColumn(df_chunk, fld_File_upload_Date)
                          THEN DataFrameObject ELSE None,
     Credit_Debit_Amount |-> RowGet(df_chunk, r, fld_CREDIT_DEBIT_AMOUNT)]

\* the loop of lines 410-471 from row r on; acc is
\* [bulk_data_transactions, success_count, fail_count]
RECURSIVE RowLoop(_, _, _, _, _, _, _)
RowLoop(df_chunk, bank_name, transaction_type, merchant_name, bank_id, r, acc) ==
    IF r > Len(df_chunk.data) THEN acc
    ELSE IF transaction_type \notin ValidTransactionTypes
    THEN RowLoop(df_chunk, bank_name, transaction_type, merchant_name, bank_id, r + 1,
                 [acc EXCEPT !.fail_count = @ + 1])
    ELSE RowLoop(df_chunk, bank_name, transaction_type, merchant_name, bank_id, r + 1,
                 [bulk_data_transactions |->
                      Append(acc.bulk_data_transactions,
                             handle_nat_in_datetime_fields(
                                 transaction_data(df_chunk, r, bank_name, transaction_type,
                                                  merchant_name, bank_id))),
                  success_count |-> acc.success_count + 1,
                  fail_count |-> acc.fail_count])

\* the commented-out variant of lines 473-480 without its guard: the batch is added
\* to fail_count whether or not the insert failed
commit_batch_counted_failed(bulk_data_transactions, fail_count, store) ==
    LET c == bulk_create_transactions(bulk_data_transactions, store)
    IN  [exc |-> "none", persisted |-> c.persisted,
         fail_count |-> fail_count + Len(bulk_data_transactions)]

\* lines 482-491 without the except clause: the insert's exception leaves the call
commit_batch_uncaught(bulk_data_transactions, fail_count, store) ==
    LET c == bulk_create_transactions(bulk_data_transactions, store)
    IN  [exc |-> c.exc, persisted |-> c.persisted, fail_count |-> fail_count]

\* lines 482-491: the atomic bulk insert inside try / except Exception
commit_batch(bulk_data_transactions, fail_count, store) ==
    LET c == bulk_create_transactions(bulk_data_transactions, store)
    IN  IF c.exc = "none"
        THEN [exc |-> "none", persisted |-> c.persisted, fail_count |-> fail_count]
        ELSE [exc |-> "none", persisted |-> c.persisted,
              fail_count |-> fail_count + Len(bulk_data_transactions)]

process_transactions(df_chunk, bank_name, transaction_type, merchant_name, store) ==
    LET bank_id == BankCode(bank_name)
        loop == RowLoop(df_chunk, bank_name, transaction_type, merchant_name, bank_id, 1,
                        [bulk_data_transactions |-> <<>>, success_count |-> 0,
                         fail_count |-> 0])
        c == commit_batch(loop.bulk_data_transactions, loop.fail_count, store)
        results == [total_successful |-> loop.success_count, total_failed |-> c.fail_count]
    IN  IF bank_id = None THEN NoEffect
        ELSE IF c.exc # "none"
        THEN [exc |-> c.exc, commits |-> <<loop.bulk_data_transactions>>,
              persisted |-> c.persisted, publishes |-> <<>>]
        ELSE [exc |-> "none", commits |-> <<loop.bulk_data_transactions>>,
              persisted |-> c.persisted, publishes |-> <<results>>]

-----------------------------------------------------------------------------
(* tasks.py: process_dataframe_chunk.                                      *)

NotFound == [found |-> FALSE]

\* lines 359-367 without the elif of lines 363-364: the exact entry or nothing
resolve_mapping_exact(bank_name, transaction_type) ==
    LET bank_mapping == IF bank_name \in DOMAIN BANK_MAPPINGS
                        THEN BANK_MAPPINGS[bank_name] ELSE <<>>
    IN  IF transaction_type \in DOMAIN bank_mapping
        THEN [found |-> TRUE, key |-> transaction_type,
              columns_mapping |-> bank_mapping[transaction_type]]
        ELSE NotFound

\* lines 359-367: the bank's entry for the type, else its 'both' entry
resolve_mapping(bank_name, transaction_type) ==
    LET bank_mapping == IF bank_name \in DOMAIN BANK_MAPPINGS
                        THEN BANK_MAPPINGS[bank_name] ELSE <<>>
    IN  IF transaction_type \in DOMAIN bank_mapping
        THEN [found |-> TRUE, key |-> transaction_type,
              columns_mapping |-> bank_mapping[transaction_type]]
        ELSE IF "both" \in DOMAIN bank_mapping
        THEN [found |-> TRUE, key |-> "both", columns_mapping |-> bank_mapping["both"]]
        ELSE NotFound

expected_columns(columns_mapping) ==
    [i \in 1..Len(columns_mapping.columns) |-> clean_column_name(columns_mapping.columns[i])]

\* line 372 with any(...) in place of all(...)
any_expected_present(columns, expected) ==
    \E i \in 1..Len(expected) : expected[i] \in Range(columns)

\* line 372: all(col in df_chunk.columns for col in expected_columns)
all_expected_present(columns, expected) ==
    \A i \in 1..Len(expected) : expected[i] \in Range(columns)

\* df_chunk.rename(columns=column_mapping, inplace=True)
rename_columns(df, column_mapping) ==
    [df EXCEPT !.columns = [i \in 1..Len(df.columns) |->
        IF df.columns[i] \in DOMAIN column_mapping
        THEN column_mapping[df.columns[i]] ELSE df.columns[i]]]

fillna_zero(v) == IF v = NaN THEN Float(0) ELSE v

\* the lambda of line 385 with >= in place of >
credit_or_debit_nonnegative(x) == IF x.f >= 0 THEN CREDIT ELSE IF x.f < 0 THEN DEBIT ELSE None

credit_or_debit(x) == IF x.f > 0 THEN CREDIT ELSE IF x.f < 0 THEN DEBIT ELSE None

\* lines 383-387: the signed-net-settlement derivation for icici
derive_credit_debit(df) ==
    LET filled == [df EXCEPT !.data = [r \in 1..Len(df.data) |->
                      [i \in 1..Len(df.columns) |->
                          IF df.columns[i] = fld_Payable_Merchant
                          THEN fillna_zero(df.data[r][i]) ELSE df.data[r][i]]]]
        p == ColumnIndex(filled, fld_Payable_Merchant)
    IN  [columns |-> Append(filled.columns, fld_CREDIT_DEBIT_AMOUNT),
         data |-> [r \in 1..Len(filled.data) |->
                      Append(filled.data[r], credit_or_debit(filled.data[r][p]))]]

\* lines 376-387: the coercions applied to the renamed chunk
coerce_chunk(df, bank_name) ==
    LET d1 == IF HasColumn(df, fld_Transaction_Date)
              THEN convert_column_to_datetime(df, fld_Transaction_Date) ELSE df
        d2 == IF HasColumn(d1, fld_Settlement_Date)
              THEN convert_column_to_datetime(d1, fld_Settlement_Date) ELSE d1
        d3 == IF HasColumn(d2, fld_Payable_Merchant)
              THEN convert_payable_to_float(d2, fld_Payable_Merchant) ELSE d2
    IN  IF HasColumn(d2, fld_Payable_Merchant) /\ bank_name = "icici"
        THEN derive_credit_debit(d3) ELSE d3

process_dataframe_chunk(df_chunk, bank_name, transaction_type, merchant_name, store) ==
    LET cleaned == [df_chunk EXCEPT !.columns =
                       [i \in 1..Len(df_chunk.columns) |-> clean_column_name(df_chunk.columns[i])]]
        m == resolve_mapping(bank_name, transaction_type)
    IN  IF ~m.found THEN NoEffect
        ELSE IF all_expected_present(cleaned.columns, expected_columns(m.columns_mapping))
        THEN process_transactions(
                 coerce_chunk(rename_columns(cleaned, m.columns_mapping.column_mapping),
                              bank_name),
                 bank_name, transaction_type, merchant_name, store)
        ELSE NoEffect

-----------------------------------------------------------------------------
(* The inputs: job arguments and file contents.                            *)

Banks == {"karur_vysya", "icici", "hdfc", "indus"}

TransactionTypes == {"booking", "refund", "both", "chargeback"}

MerchantNames == {"IRCTC"}

StoreAnswers == {"ok", "rejects", "unreachable"}

SchemaEntries == {karur_vysya_booking, karur_vysya_refund, icici_both}

RemoveAt(s, d) == [i \in 1..(Len(s) - 1) |-> IF i < d THEN s[i] ELSE s[i + 1]]

\* a header as a bank may decorate it: "TXN DATE" as "TXN_DATE [IST]"
Decorate(h) ==
    [i \in 1..Len(h) |-> IF h[i] = " " THEN "_" ELSE h[i]] \o <<" ", "[", "I", "S", "T", "]">>

\* header rows of the files: a schema's columns as registered, decorated, and
\* with any one of them absent
HeaderLists ==
    UNION {{e.columns, [i \in 1..Len(e.columns) |-> Decorate(e.columns[i])]}
           \cup {RemoveAt(e.columns, d) : d \in 1..Len(e.columns)} : e \in SchemaEntries}

AmountColumns == {<<"B", "O", "O", "K", "I", "N", "G", "A", "M", "O", "U", "N", "T">>, <<"R", "E", "F", "U", "N", "D", "A", "M", "O", "U", "N", "T">>, <<"N", "E", "T", "A", "M", "T">>}

DateColumns == {<<"T", "X", "N", "D", "A", "T", "E">>,
     <<"C", "R", "E", "D", "I", "T", "E", "D", "O", "N">>,
     <<"R", "E", "F", "U", "N", "D", "D", "A", "T", "E">>,
     <<"D", "E", "B", "I", "T", "E", "D", "O", "N">>,
     <<"T", "R", "A", "N", "S", "A", "C", "T", "I", "O", "N", "D", "A", "T", "E">>,
     <<"P", "O", "S", "T", "D", "A", "T", "E">>}

\* a row whose cells parse, and a row whose amount and dates do not
GoodRow == [amt |-> <<"1", ",", "2", "3", "4", ".", "5", "0">>, date |-> <<"2", "0", "2", "4", "-", "1", "1", "-", "0", "1">>]

BadRow == [amt |-> <<"a", "b", "c">>, date |-> <<"2", "0", "2", "4", "-", "1", "3", "-", "4", "5">>]

\* rows whose amount is negative, and zero
DebitRow == [amt |-> <<"-", "5", "0", ".", "2", "5">>, date |-> <<"2", "0", "2", "4", "-", "0", "2", "-", "2", "8">>]

ZeroRow == [amt |-> <<"0", ".", "0", "0">>, date |-> <<"2", "0", "2", "4", "-", "1", "1", "-", "0", "1">>]

Rows == {GoodRow, BadRow, DebitRow, ZeroRow}

RowLists(n) == UNION {[1..k -> Rows] : k \in 0..n}

\* the cell of a row under a header: the row's amount in an amount column, its
\* date in a date column, an opaque string elsewhere
RawCell(row, header) ==
    LET c == clean_column_name(header)
    IN  IF c \in AmountColumns THEN Str(row.amt)
        ELSE IF c \in DateColumns THEN Str(row.date)
        ELSE Str(<<"x">>)

\* the DataFrame pd.read_csv / pd.read_excel (dtype=str) yields for a chunk
ReadChunk(headers, rows) ==
    [columns |-> headers,
     data |-> [r \in 1..Len(rows) |-> [i \in 1..Len(headers) |-> RawCell(rows[r], headers[i])]]]

-----------------------------------------------------------------------------
(* django.core.cache and views.py.                                         *)

\* a slot that adds the counts to the value it holds
cache_set_accumulating(slot, results) ==
    IF slot = None THEN results
    ELSE [total_successful |-> slot.total_successful + results.total_successful,
          total_failed |-> slot.total_failed + results.total_failed]

\* cache.set('latest_transaction_results', results, timeout=3600)
cache_set(slot, results) == results

\* cache.get('latest_transaction_results'): None when absent or expired
cache_get(slot) == slot

\* lines 168-173: results['total_successful'] and results['total_failed'] rendered;
\* subscripting None raises TypeError, which Django answers with status 500
render_results(results) ==
    IF results = None
    THEN [status |-> 500]
    ELSE [status |-> 200, total_successful |-> results.total_successful,
          total_failed |-> results.total_failed]

\* the view without lines 159-164: the cached value is rendered as it is read
transaction_results_view_unguarded(slot) == render_results(cache_get(slot))

transaction_results_view(slot) ==
    LET results == cache_get(slot)
    IN  IF results = None
        THEN render_results([total_successful |-> 0, total_failed |-> 0])
        ELSE render_results(results)

-----------------------------------------------------------------------------
(* The initial state: no task running, an empty store, an absent slot.     *)

IdleJob == [pc |-> "idle"]

NoCall == [pc |-> "idle"]

IdleWorker == [chunk_index |-> 0, results |-> None]

NoPublication == [worker |-> 0, results |-> None, over |-> None]

Init ==
    /\ job = IdleJob
    /\ fs = {}
    /\ db = 0
    /\ cache = None
    /\ workers = [w \in 1..NumWorkers |-> IdleWorker]
    /\ lastPub = NoPublication
    /\ call = NoCall
    /\ response = None

-----------------------------------------------------------------------------
(* SpecChunk: one call of process_dataframe_chunk on any chunk, from a     *)
(* state in which the slot is absent or holds an earlier chunk's result,   *)
(* with the slot's expiry and requests to transaction_results_view.        *)

EarlierResults == [total_successful |-> 1, total_failed |-> 0]

InitChunk ==
    /\ job = IdleJob
    /\ fs = {}
    /\ db = 0
    /\ cache \in {None, EarlierResults}
    /\ workers = [w \in 1..NumWorkers |-> IdleWorker]
    /\ lastPub = NoPublication
    /\ call = NoCall
    /\ response = None

\* process_dataframe_chunk(df_chunk, bank_name, transaction_type, merchant_name)
\* run to its return; call records the arguments, the slot before it and what it did
CallChunk ==
    /\ call.pc = "idle"
    /\ response = None
    /\ \E bank_name \in Banks, transaction_type \in TransactionTypes,
          merchant_name \in MerchantNames, headers \in HeaderLists,
          rows \in RowLists(MaxRows), store \in {"ok", "rejects"} :
          \E out \in {process_dataframe_chunk(ReadChunk(headers, rows), bank_name,
                                             transaction_type, merchant_name, store)} :
              /\ db' = db + out.persisted
              /\ cache' = IF out.publishes = <<>> THEN cache
                          ELSE cache_set(cache, out.publishes[1])
              /\ call' = [pc |-> "ret", bank_name |-> bank_name,
                          transaction_type |-> transaction_type, columns |-> headers,
                          rows |-> rows, store |-> store, slot0 |-> cache,
                          resolved |-> resolve_mapping(bank_name, transaction_type),
                          out |-> out]
    /\ UNCHANGED <<job, fs, workers, lastPub, response>>

\* the caller takes the return value
CallReturn ==
    /\ call.pc = "ret"
    /\ call' = [pc |-> "done"]
    /\ UNCHANGED <<job, fs, db, cache, workers, lastPub, response>>

\* timeout=3600 elapses: the slot is absent again
Expire ==
    /\ call.pc # "ret"
    /\ response = None
    /\ cache # None
    /\ cache' = None
    /\ UNCHANGED <<job, fs, db, workers, lastPub, call, response>>

\* GET transaction-results/
View ==
    /\ call.pc # "ret"
    /\ response = None
    /\ response' = transaction_results_view(cache)
    /\ UNCHANGED <<job, fs, db, cache, workers, lastPub, call>>

\* the response is sent
Rendered ==
    /\ response # None
    /\ response' = None
    /\ UNCHANGED <<job, fs, db, cache, workers, lastPub, call>>

NextChunk == CallChunk \/ CallReturn \/ Expire \/ View \/ Rendered

SpecChunk == InitChunk /\ [][NextChunk]_vars

-----------------------------------------------------------------------------
(* SpecTransactions: one call of process_transactions itself, on a frame   *)
(* renamed and coerced as process_dataframe_chunk leaves it, for any bank  *)
(* and type, the banks without a schema or without a code included.        *)

\* header rows with the schema that renames them: each registered list, and the
\* karur_vysya booking list with a MID column of the file's own
TransactionFrames ==
    {<<e.columns, e>> : e \in SchemaEntries}
    \cup {<<Append(karur_vysya_booking.columns, <<"M", "I", "D">>), karur_vysya_booking>>}

\* the frame as lines 355-387 hand it to process_transactions
PreparedFrame(headers, columns_mapping, rows, bank_name) ==
    LET df == ReadChunk(headers, rows)
        cleaned == [df EXCEPT !.columns =
                       [i \in 1..Len(df.columns) |-> clean_column_name(df.columns[i])]]
    IN  coerce_chunk(rename_columns(cleaned, columns_mapping.column_mapping), bank_name)

\* process_transactions(df_chunk, bank_name, transaction_type, merchant_name) run to
\* its return
CallTransactions ==
    /\ call.pc = "idle"
    /\ response = None
    /\ \E bank_name \in Banks, transaction_type \in TransactionTypes,
          merchant_name \in MerchantNames, frame \in TransactionFrames,
          rows \in RowLists(MaxRows), store \in {"ok", "rejects"} :
          \E df_chunk \in {PreparedFrame(frame[1], frame[2], rows, bank_name)} :
             \E out \in {process_transactions(df_chunk, bank_name, transaction_type,
                                              merchant_name, store)} :
                /\ db' = db + out.persisted
                /\ cache' = IF out.publishes = <<>> THEN cache
                            ELSE cache_set(cache, out.publishes[1])
                /\ call' = [pc |-> "ret", bank_name |-> bank_name,
                            transaction_type |-> transaction_type, df_chunk |-> df_chunk,
                            store |-> store, slot0 |-> cache, out |-> out]
    /\ UNCHANGED <<job, fs, workers, lastPub, response>>

NextTransactions == CallTransactions \/ CallReturn \/ Expire \/ View \/ Rendered

SpecTransactions == InitChunk /\ [][NextTransactions]_vars

-----------------------------------------------------------------------------
(* SpecClean: clean_column_name applied to a header string, and again to   *)
(* what it returned.                                                       *)

\* the characters of the header strings: brackets, the whitespace characters, the
\* two characters line 84 drops, and a letter
HeaderChars == {"[", "]", " ", "\n", "\t", ".", "_", "A"}

HeaderStrings(n) == UNION {[1..k -> HeaderChars] : k \in 0..n}

InitClean ==
    /\ job = IdleJob
    /\ fs = {}
    /\ db = 0
    /\ cache = None
    /\ workers = [w \in 1..NumWorkers |-> IdleWorker]
    /\ lastPub = NoPublication
    /\ call \in {[pc |-> "clean", column_name |-> h] : h \in HeaderStrings(MaxLen)}
    /\ response = None

\* cleaned_name = clean_column_name(column_name)
Clean ==
    /\ call.pc = "clean"
    /\ call' = [pc |-> "cleaned", column_name |-> call.column_name,
                cleaned_name |-> clean_column_name(call.column_name)]
    /\ UNCHANGED <<job, fs, db, cache, workers, lastPub, response>>

\* clean_column_name(cleaned_name)
CleanAgain ==
    /\ call.pc = "cleaned"
    /\ call' = [pc |-> "cleaned_again", column_name |-> call.column_name,
                cleaned_name |-> call.cleaned_name,
                cleaned_again |-> clean_column_name(call.cleaned_name)]
    /\ UNCHANGED <<job, fs, db, cache, workers, lastPub, response>>

NextClean == Clean \/ CleanAgain

SpecClean == InitClean /\ [][NextClean]_vars

-----------------------------------------------------------------------------
(* Spec: one run of the task process_uploaded_files over its file list.    *)

\* the (bank_name, transaction_type) arguments of the jobs explored: a bank with an
\* entry for the type, one with a 'both' entry only, the same with a type outside
\* booking/refund/both, and a bank with a code but no schema
JobParams ==
    {<<"karur_vysya", "booking">>, <<"icici", "refund">>, <<"icici", "chargeback">>,
     <<"hdfc", "booking">>}

\* (format tag, extension of the path) of an input file
FileKinds ==
    {[fmt |-> "excel", ext |-> ".xlsx"], [fmt |-> "excel", ext |-> ".csv"],
     [fmt |-> "csv", ext |-> ".csv"], [fmt |-> "pdf", ext |-> ".pdf"]}

FileLists(n) == UNION {[1..k -> FileKinds] : k \in 1..n}

\* header rows of the chunks the job's files hold
JobHeaderLists ==
    {e.columns : e \in SchemaEntries} \cup {RemoveAt(karur_vysya_booking.columns, 1)}

\* the data-quality failures a chunk call met, from its arguments and what it did
DataQualityFailures(bank_name, transaction_type, headers, rows, store, out) ==
    LET m == resolve_mapping(bank_name, transaction_type)
        cleaned == [i \in 1..Len(headers) |-> clean_column_name(headers[i])]
        reached == out.commits # <<>>
    IN  (IF ~m.found THEN {"unresolved_schema"}
         ELSE IF \E i \in 1..Len(m.columns_mapping.columns) :
                    clean_column_name(m.columns_mapping.columns[i]) \notin Range(cleaned)
         THEN {"missing_header"} ELSE {})
        \cup (IF reached /\ rows # <<>> /\ transaction_type \notin ValidTransactionTypes
              THEN {"invalid_type"} ELSE {})
        \cup (IF reached /\ transaction_type \in ValidTransactionTypes
                 /\ BadRow \in Range(rows)
              THEN {"unparseable"} ELSE {})
        \cup (IF reached /\ store = "rejects" THEN {"commit_failed"} ELSE {})

\* what a chunk call does to the task and to the shared store and slot
Effect(bank_name, transaction_type, headers, rows, store, out) ==
    [exc |-> out.exc, persisted |-> out.persisted, publishes |-> out.publishes,
     store_fault |-> out.commits # <<>> /\ store = "unreachable",
     dq |-> DataQualityFailures(bank_name, transaction_type, headers, rows, store, out)]

\* process_dataframe_chunk on every chunk the files may hold, per job arguments
ChunkEffects ==
    [p \in JobParams |->
        {Effect(p[1], p[2], headers, rows, store,
                process_dataframe_chunk(ReadChunk(headers, rows), p[1], p[2], merchant_name,
                                        store)) :
            headers \in JobHeaderLists, rows \in RowLists(MaxRows), store \in StoreAnswers,
            merchant_name \in MerchantNames}]

\* lines 132-153 with the csv reader as the fallback for every other tag
dispatch_format_csv_fallback(file_format, file_extension) ==
    IF file_format = "excel"
    THEN IF file_extension \in {".xlsx", ".xls", ".ods"} THEN "read_excel" ELSE "continue"
    ELSE "read_csv"

\* lines 132-153: which reader the format tag and the extension select
dispatch_format(file_format, file_extension) ==
    IF file_format = "excel"
    THEN IF file_extension \in {".xlsx", ".xls", ".ods"} THEN "read_excel" ELSE "continue"
    ELSE IF file_format = "csv" THEN "read_csv"
    ELSE "continue"

\* lines 159-161: except Exception as e: log the error, continue
inner_except(exc) == "continue"

\* the removal as the last statement of the try block instead: it runs only when
\* the chunks were exhausted
remove_after_chunks(files, file_path, left) ==
    IF left = "exhausted" /\ file_path \in files THEN files \ {file_path} ELSE files

\* lines 162-167, the finally clause: it runs however the span is left
\* ("skipped", "exhausted", "read_error", "chunk_error")
finally_remove(files, file_path, left) ==
    IF file_path \in files THEN files \ {file_path} ELSE files

\* the span of file job.file_index ends: the finally clause, then the next file,
\* unless the handler re-raised (lines 175-177 then fail the task)
EndSpan(left, exc) ==
    /\ fs' = finally_remove(fs, job.file_index, left)
    /\ job' = IF exc # "none" /\ inner_except(exc) = "raise"
              THEN [job EXCEPT !.pc = "raised",
                               !.ended = Append(@, [end |-> left, calls |-> job.chunk_index])]
              ELSE [job EXCEPT !.pc = "file",
                               !.file_index = @ + 1,
                               !.chunk_index = 0,
                               !.ended = Append(@, [end |-> left, calls |-> job.chunk_index])]

\* (bank_name, transaction_type) of the jobs followed through their retries: a bank
\* with a schema, and one without
RetryParams == {<<"karur_vysya", "booking">>, <<"hdfc", "booking">>}

\* process_dataframe_chunk on the chunks of the files of those jobs: one parseable
\* row under the full karur_vysya booking header row
RetryEffects ==
    [p \in RetryParams |->
        {Effect(p[1], p[2], karur_vysya_booking.columns, <<GoodRow>>, store,
                process_dataframe_chunk(ReadChunk(karur_vysya_booking.columns, <<GoodRow>>),
                                        p[1], p[2], merchant_name, store)) :
            store \in {"ok", "rejects"}, merchant_name \in MerchantNames}]

\* the task as it starts on its arguments: file_paths are the files 1..Len(files);
\* chunks names the table its files' chunks are drawn from; committed counts,
\* for the jobs followed through their retries, the successful inserts of each
\* chunk of each file
StartedJob(p, merchant_name, files, chunks) ==
    [pc |-> "file", bank_name |-> p[1], transaction_type |-> p[2], chunks |-> chunks,
     merchant_name |-> merchant_name,
     file_formats |-> [i \in 1..Len(files) |-> files[i].fmt],
     file_extensions |-> [i \in 1..Len(files) |-> files[i].ext],
     file_index |-> 1, chunk_index |-> 0, df_chunks |-> "none",
     ended |-> <<>>, store_fault |-> FALSE, dq |-> {},
     retries |-> 0,
     committed |-> [f \in 1..Len(files) |-> [c \in 1..MaxChunks |-> 0]]]

\* process_uploaded_files.delay(file_paths, bank_name, transaction_type, file_formats,
\* merchant_name): the temporary files exist, the task starts
Submit ==
    /\ job.pc = "idle"
    /\ call.pc = "idle"
    /\ \E p \in JobParams, merchant_name \in MerchantNames, files \in FileLists(MaxFiles) :
          /\ job' = StartedJob(p, merchant_name, files, "ChunkEffects")
          /\ fs' = 1..Len(files)
    /\ UNCHANGED <<db, cache, workers, lastPub, call, response>>

\* lines 123-153: the next file of the list; it is skipped, or read (pd.read_excel
\* returns the whole sheet, pd.read_csv a reader of chunks), or reading it raises,
\* as it does when the file is no longer there
BeginFile ==
    /\ job.pc = "file"
    /\ job.file_index <= Len(job.file_formats)
    /\ \E d \in {dispatch_format(job.file_formats[job.file_index],
                                 job.file_extensions[job.file_index])} :
          IF d = "continue"
          THEN EndSpan("skipped", "none")
          ELSE \E readable \in (IF job.file_index \in fs THEN BOOLEAN ELSE {FALSE}) :
                  IF readable
                  THEN /\ job' = [job EXCEPT !.pc = "chunk",
                                             !.df_chunks = IF d = "read_excel" THEN "list"
                                                           ELSE "reader"]
                       /\ fs' = fs
                  ELSE EndSpan("read_error", "OSError")
    /\ UNCHANGED <<db, cache, workers, lastPub, call, response>>

\* lines 156-157: the next chunk is read and process_dataframe_chunk runs on it
ProcessChunk ==
    /\ job.pc = "chunk"
    /\ job.chunk_index < (IF job.df_chunks = "list" THEN 1 ELSE MaxChunks)
    /\ \E e \in (IF job.chunks = "ChunkEffects"
                 THEN ChunkEffects[<<job.bank_name, job.transaction_type>>]
                 ELSE RetryEffects[<<job.bank_name, job.transaction_type>>]) :
          /\ db' = db + e.persisted
          /\ cache' = IF e.publishes = <<>> THEN cache ELSE cache_set(cache, e.publishes[1])
          /\ IF e.exc # "none"
             THEN EndSpan("chunk_error", e.exc)
             ELSE /\ job' = [job EXCEPT !.chunk_index = @ + 1,
                                        !.store_fault = @ \/ e.store_fault,
                                        !.dq = @ \cup e.dq,
                                        !.committed[job.file_index][job.chunk_index + 1] =
                                            IF e.persisted > 0 /\ job.chunks = "RetryEffects"
                                            THEN @ + 1 ELSE @]
                  /\ fs' = fs
    /\ UNCHANGED <<workers, lastPub, call, response>>

\* the chunks are exhausted (line 171 follows the finally clause), or reading the
\* next one raises
EndChunks ==
    /\ job.pc = "chunk"
    /\ \/ /\ job.df_chunks = "list" => job.chunk_index = 1
          /\ EndSpan("exhausted", "none")
       \/ /\ job.df_chunks = "reader"
          /\ EndSpan("read_error", "ParserError")
    /\ UNCHANGED <<db, cache, workers, lastPub, call, response>>

\* line 173: all files have been processed, the task returns
Return ==
    /\ job.pc = "file"
    /\ job.file_index > Len(job.file_formats)
    /\ job' = [job EXCEPT !.pc = "returned"]
    /\ UNCHANGED <<fs, db, cache, workers, lastPub, call, response>>

Next == Submit \/ BeginFile \/ ProcessChunk \/ EndChunks \/ Return

Spec == Init /\ [][Next]_vars

-----------------------------------------------------------------------------
(* SpecRetry: the task under Celery's retry policy.  An exception leaves   *)
(* process_uploaded_files only from outside the per-file try: os.remove in *)
(* the finally clause raising (the file cannot be removed).  Lines 175-177 *)
(* re-raise it and autoretry_for=(Exception,) runs the task again with the *)
(* same arguments.                                                         *)

\* retry_kwargs={'max_retries': 5, ...}
max_retries == 5

\* lines 163-164: os.remove(file_path) raises, as the span of the current file ends
\* (skipped, unreadable, or its chunks done); the file stays, the task fails
RemoveRaises ==
    /\ \/ job.pc = "file" /\ job.file_index <= Len(job.file_formats)
       \/ job.pc = "chunk" /\ (job.df_chunks = "list" => job.chunk_index = 1)
    /\ job.file_index \in fs
    /\ job' = [job EXCEPT !.pc = "raised",
                          !.ended = Append(@, [end |-> "remove_error",
                                               calls |-> job.chunk_index])]
    /\ UNCHANGED <<fs, db, cache, workers, lastPub, call, response>>

\* the runner calls the task again with the same file_paths and file_formats
Retry ==
    /\ job.pc = "raised"
    /\ job.retries < max_retries
    /\ job' = [job EXCEPT !.pc = "file", !.file_index = 1, !.chunk_index = 0,
                          !.df_chunks = "none", !.ended = <<>>, !.dq = {},
                          !.store_fault = FALSE, !.retries = @ + 1]
    /\ UNCHANGED <<fs, db, cache, workers, lastPub, call, response>>

\* the retries are used up: the task is marked failed
GiveUp ==
    /\ job.pc = "raised"
    /\ job.retries = max_retries
    /\ job' = [job EXCEPT !.pc = "failed"]
    /\ UNCHANGED <<fs, db, cache, workers, lastPub, call, response>>

\* the task has been sent and starts
InitRetry ==
    /\ \E p \in RetryParams, merchant_name \in MerchantNames,
          files \in FileLists(MaxFiles) :
          /\ job = StartedJob(p, merchant_name, files, "RetryEffects")
          /\ fs = 1..Len(files)
    /\ db = 0
    /\ cache = None
    /\ workers = [w \in 1..NumWorkers |-> IdleWorker]
    /\ lastPub = NoPublication
    /\ call = NoCall
    /\ response = None

NextRetry ==
    BeginFile \/ ProcessChunk \/ EndChunks \/ Return \/ RemoveRaises \/ Retry \/ GiveUp

SpecRetry == InitRetry /\ [][NextRetry]_vars

-----------------------------------------------------------------------------
(* SpecUpload: views.py, upload_files: one POST request with a valid form, *)
(* followed by the task it sends, if it sends one.                         *)

\* an uploaded file: the extension of its name (file.name.lower().split('.')[-1])
\* and whether file.size is 0
UploadKinds == [ext : {"xlsx", "csv", "pdf"}, empty : BOOLEAN]

UploadLists(n) == UNION {[1..k -> UploadKinds] : k \in 0..n}

\* lines 92-110 from file i on; the temporary file of file i is named i
RECURSIVE upload_loop(_, _, _)
upload_loop(files, i, acc) ==
    IF i > Len(files)
    THEN [status |-> 202, delay |-> TRUE, temp_file_paths |-> acc.temp_file_paths,
          file_formats |-> acc.file_formats, file_extensions |-> acc.file_extensions]
    ELSE IF files[i].empty
    THEN [status |-> 400, delay |-> FALSE, temp_file_paths |-> acc.temp_file_paths,
          file_formats |-> acc.file_formats, file_extensions |-> acc.file_extensions]
    ELSE upload_loop(files, i + 1,
             [temp_file_paths |-> Append(acc.temp_file_paths, i),
              file_formats |-> Append(acc.file_formats,
                                      IF files[i].ext \in {"xlsx", "xls", "ods"}
                                      THEN "excel" ELSE "csv"),
              file_extensions |-> Append(acc.file_extensions,
                                         IF files[i].ext = "xlsx" THEN ".xlsx"
                                         ELSE IF files[i].ext = "csv" THEN ".csv"
                                         ELSE ".pdf")])

\* lines 80-114 for a POST request whose form is valid
upload_files(files) ==
    upload_loop(files, 1, [temp_file_paths |-> <<>>, file_formats |-> <<>>,
                           file_extensions |-> <<>>])

\* POST upload/: the temporary files are written; the task is sent (status 202)
\* or the request is refused (status 400)
Upload ==
    /\ job.pc = "idle"
    /\ response = None
    /\ fs = {}
    /\ \E p \in JobParams, merchant_name \in MerchantNames, files \in UploadLists(MaxFiles) :
          \E out \in {upload_files(files)} :
             /\ fs' = fs \cup Range(out.temp_file_paths)
             /\ response' = [status |-> out.status,
                             created |-> Len(out.temp_file_paths)]
             /\ job' = IF out.delay
                       THEN StartedJob(p, merchant_name,
                                       [i \in 1..Len(out.temp_file_paths) |->
                                           [fmt |-> out.file_formats[i],
                                            ext |-> out.file_extensions[i]]],
                                       "ChunkEffects")
                       ELSE job
    /\ UNCHANGED <<db, cache, workers, lastPub, call>>

NextUpload == Upload \/ BeginFile \/ ProcessChunk \/ EndChunks \/ Return

SpecUpload == Init /\ [][NextUpload]_vars

-----------------------------------------------------------------------------
(* SpecSlot: NumWorkers jobs inside their chunk loops at the same time.    *)
(* Each call of process_dataframe_chunk touches the shared store (the      *)
(* atomic insert) and then the shared slot (cache.set): two steps that the *)
(* calls of other jobs may come between.                                   *)

\* the chunk calls the jobs 1..w have begun: those returned and the one under way
RECURSIVE CallsMade(_)
CallsMade(w) ==
    IF w = 0 THEN 0
    ELSE CallsMade(w - 1) + workers[w].chunk_index
         + (IF workers[w].results = None THEN 0 ELSE 1)

\* the jobs together make at most this many chunk calls
MaxCalls == MaxChunks + 1

\* process_dataframe_chunk of job w, up to line 500: the insert is done, results
\* is built
SlotCommit(w) ==
    /\ workers[w].results = None
    /\ CallsMade(NumWorkers) < MaxCalls
    /\ \E p \in JobParams :
          \E e \in ChunkEffects[p] :
              /\ db' = db + e.persisted
              /\ workers' = [workers EXCEPT ![w] =
                                IF e.publishes = <<>>
                                THEN [chunk_index |-> @.chunk_index + 1, results |-> None]
                                ELSE [chunk_index |-> @.chunk_index,
                                      results |-> e.publishes[1]]]
    /\ UNCHANGED <<job, fs, cache, lastPub, call, response>>

\* line 501 of job w: cache.set('latest_transaction_results', results, timeout=3600)
SlotPublish(w) ==
    /\ workers[w].results # None
    /\ cache' = cache_set(cache, workers[w].results)
    /\ lastPub' = [worker |-> w, results |-> workers[w].results, over |-> cache]
    /\ workers' = [workers EXCEPT ![w] =
                      [chunk_index |-> @.chunk_index + 1, results |-> None]]
    /\ UNCHANGED <<job, fs, db, call, response>>

\* timeout=3600 elapses while jobs run
SlotExpire ==
    /\ cache # None
    /\ cache' = None
    /\ UNCHANGED <<job, fs, db, workers, lastPub, call, response>>

NextSlot == (\E w \in 1..NumWorkers : SlotCommit(w) \/ SlotPublish(w)) \/ SlotExpire

SpecSlot == Init /\ [][NextSlot]_vars


-----------------------------------------------------------------------------
(* The properties.                                                         *)

\* C1: when the atomic insert of a chunk fails, the published result is
\* {total_successful: 0, total_failed: N}, N the rows in the batch, and none of
\* them is persisted.  (Checked under SpecChunk.)
C1_FailedCommitPublishesZeroSuccess ==
    (call.pc = "ret" /\ call.out.commits # <<>> /\ call.store = "rejects")
    => /\ call.out.publishes =
              <<[total_successful |-> 0, total_failed |-> Len(call.out.commits[1])]>>
       /\ cache = [total_successful |-> 0, total_failed |-> Len(call.out.commits[1])]
       /\ call.out.persisted = 0
       /\ db = 0

\* C2: for a chunk whose bank and type resolve to a schema, if any one expected
\* header is absent from the normalized headers the chunk is rejected: nothing is
\* handed to the commit call and the slot is as it was before the call; with all
\* of them present the commit call is made.  (Checked under SpecChunk.)
C2_MissingHeaderRejectsChunk ==
    (call.pc = "ret" /\ call.resolved.found)
    => LET expected == call.resolved.columns_mapping.columns
           cleaned == {clean_column_name(call.columns[i]) : i \in 1..Len(call.columns)}
           missing == {i \in 1..Len(expected) : clean_column_name(expected[i]) \notin cleaned}
       IN  /\ missing # {}
              => /\ call.out.commits = <<>>
                 /\ call.out.publishes = <<>>
                 /\ cache = call.slot0
                 /\ db = 0
           /\ (missing = {} /\ call.bank_name \in DOMAIN BANK_CODE_MAPPING)
              => Len(call.out.commits) = 1

C2_Witness ==
    /\ call.pc = "ret"
    /\ call.bank_name = "icici" /\ call.transaction_type = "refund"
    /\ \E d \in 1..Len(icici_both.columns) : call.columns = RemoveAt(icici_both.columns, d)
    /\ Len(call.rows) = MaxRows
    /\ call.store = "ok"
    /\ call.slot0 = EarlierResults
    /\ cache = EarlierResults
    /\ call.out.commits = <<>>

\* C3: a chunk of n rows holding every expected header of the schema its bank and
\* type resolve to, with a valid transaction type and a commit that succeeds, has
\* exactly n records handed to one commit call, all n persisted, and the result
\* {total_successful: n, total_failed: 0} published.  (Checked under SpecChunk.)
C3_ValidChunkAllSucceed ==
    (/\ call.pc = "ret"
     /\ call.resolved.found
     /\ call.bank_name \in DOMAIN BANK_CODE_MAPPING
     /\ call.transaction_type \in {"booking", "refund", "both"}
     /\ call.store = "ok"
     /\ \A i \in 1..Len(call.resolved.columns_mapping.columns) :
           \E j \in 1..Len(call.columns) :
              clean_column_name(call.columns[j])
                 = clean_column_name(call.resolved.columns_mapping.columns[i]))
    => /\ Len(call.out.commits) = 1
       /\ Len(call.out.commits[1]) = Len(call.rows)
       /\ call.out.persisted = Len(call.rows)
       /\ call.out.publishes =
              <<[total_successful |-> Len(call.rows), total_failed |-> 0]>>
       /\ cache = [total_successful |-> Len(call.rows), total_failed |-> 0]

C3_Witness ==
    /\ call.pc = "ret"
    /\ call.bank_name = "karur_vysya" /\ call.transaction_type = "booking"
    /\ call.columns = [i \in 1..Len(karur_vysya_booking.columns) |->
                          Decorate(karur_vysya_booking.columns[i])]
    /\ call.rows = <<GoodRow, BadRow>>
    /\ call.store = "ok"
    /\ Len(call.out.commits[1]) = 2
    /\ cache = [total_successful |-> 2, total_failed |-> 0]
    /\ db = 2

C5_UnsupportedFileSkipped ==
    /\ job.pc # "raised"
    /\ job.pc # "idle"
       => \A i \in 1..Len(job.ended) :
             LET unsupported ==
                    \/ job.file_formats[i] \notin {"excel", "csv"}
                    \/ /\ job.file_formats[i] = "excel"
                       /\ job.file_extensions[i] \notin {".xlsx", ".xls", ".ods"}
             IN  IF unsupported
                 THEN job.ended[i] = [end |-> "skipped", calls |-> 0]
                 ELSE job.ended[i].end \in {"exhausted", "read_error"}
    /\ job.pc = "returned" => Len(job.ended) = Len(job.file_formats)

C5_Witness ==
    /\ job.pc = "returned"
    /\ job.file_formats = <<"pdf", "csv">>
    /\ job.ended = <<[end |-> "skipped", calls |-> 0],
                     [end |-> "exhausted", calls |-> MaxChunks]>>
    /\ db = MaxChunks * MaxRows

\* C6: an unreadable input file or an unreachable store makes
\* process_uploaded_files raise (the runner then retries the task): a run in
\* which either happened does not return normally.  (Checked under Spec.)
C6_IngestionFaultPropagates ==
    job.pc = "returned"
    => /\ \A i \in 1..Len(job.ended) : job.ended[i].end # "read_error"
       /\ ~job.store_fault

\* C7: no unresolved schema, missing header, invalid transaction type,
\* unparseable date or amount, or failed commit makes process_uploaded_files
\* raise; the failing chunk call itself returns to the chunk loop.  (Checked
\* under Spec.)
C7_DataQualityNeverRaises ==
    job.pc # "idle"
    => /\ job.pc # "raised"
       /\ \A i \in 1..Len(job.ended) : job.ended[i].end # "chunk_error"

C7_Witness ==
    /\ job.pc = "returned"
    /\ job.bank_name = "karur_vysya"
    /\ {"missing_header", "unparseable", "commit_failed"} \subseteq job.dq
    /\ Len(job.ended) = 1
    /\ job.ended[1] = [end |-> "exhausted", calls |-> MaxChunks]

\* C8: whatever the interleaving of the jobs' chunk calls, the slot, while
\* present, holds exactly the result of the call that published last, not a sum
\* or a mixture with what it held.  (Checked under SpecSlot.)
C8_LastWriteWins ==
    cache # None => cache = lastPub.results

C8_Witness ==
    /\ lastPub.worker = 1
    /\ lastPub.over = [total_successful |-> 2, total_failed |-> 0]
    /\ lastPub.results = [total_successful |-> 1, total_failed |-> 1]
    /\ cache = lastPub.results
    /\ workers[2].results = [total_successful |-> 0, total_failed |-> 2]

\* C9: a request for the results answers with zeros when the slot is absent or
\* has expired, and with exactly the stored counts otherwise; it never fails.
\* (Checked under SpecChunk.)
C9_ReaderDefaultsToZeros ==
    response # None
    => response = IF cache = None
                  THEN [status |-> 200, total_successful |-> 0, total_failed |-> 0]
                  ELSE [status |-> 200, total_successful |-> cache.total_successful,
                        total_failed |-> cache.total_failed]

C9_Witness ==
    /\ response = [status |-> 200, total_successful |-> 0, total_failed |-> 0]
    /\ cache = None
    /\ db > 0

\* C10: the schema used for (bank, transaction type) is the bank's entry for that
\* type if there is one, else its 'both' entry if there is one, else none; with
\* none the chunk is rejected: no record, no commit call, no exception, the slot
\* untouched.  (Checked under SpecChunk.)
C10_ResolutionOrder ==
    call.pc = "ret"
    => LET entries == IF call.bank_name \in DOMAIN BANK_MAPPINGS
                      THEN BANK_MAPPINGS[call.bank_name] ELSE <<>>
           exact == call.transaction_type \in DOMAIN entries
           both == "both" \in DOMAIN entries
       IN  /\ exact => /\ call.resolved.found
                       /\ call.resolved.columns_mapping = entries[call.transaction_type]
           /\ (~exact /\ both) => /\ call.resolved.found
                                  /\ call.resolved.columns_mapping = entries["both"]
           /\ (~exact /\ ~both)
              => /\ call.resolved = NotFound
                 /\ call.out = NoEffect
                 /\ cache = call.slot0
                 /\ db = 0

C10_Witness ==
    /\ call.pc = "ret"
    /\ call.bank_name = "karur_vysya" /\ call.transaction_type = "both"
    /\ call.columns = karur_vysya_booking.columns
    /\ Len(call.rows) = MaxRows
    /\ call.resolved = NotFound
    /\ call.out = NoEffect
    /\ call.slot0 = EarlierResults
    /\ cache = EarlierResults


\* C11: every record materialized for icici has Credit_Debit_Amount CREDIT when
\* its Payable_Merchant is positive, DEBIT when negative and null when zero, an
\* amount that does not parse counting as zero; every record of any other bank
\* has Credit_Debit_Amount null.  (Checked under SpecChunk.)
C11_CreditDebitFromSign ==
    (call.pc = "ret" /\ call.out.commits # <<>>)
    => \A k \in 1..Len(call.out.commits[1]) :
          LET rec == call.out.commits[1][k]
          IN  IF call.bank_name = "icici"
              THEN /\ rec.Payable_Merchant.t = "float"
                   /\ rec.Payable_Merchant.f > 0 => rec.Credit_Debit_Amount = CREDIT
                   /\ rec.Payable_Merchant.f < 0 => rec.Credit_Debit_Amount = DEBIT
                   /\ rec.Payable_Merchant.f = 0 => rec.Credit_Debit_Amount = None
                   /\ call.rows[k] = BadRow => rec.Payable_Merchant = Float(0)
                   /\ call.rows[k] = GoodRow => rec.Payable_Merchant.f > 0
                   /\ call.rows[k] = DebitRow => rec.Payable_Merchant.f < 0
              ELSE rec.Credit_Debit_Amount = None

C11_Witness ==
    /\ call.pc = "ret"
    /\ call.bank_name = "icici" /\ call.transaction_type = "booking"
    /\ call.rows = <<DebitRow, ZeroRow>>
    /\ call.out.commits # <<>>
    /\ Len(call.out.commits[1]) = 2
    /\ call.out.commits[1][1].Credit_Debit_Amount = DEBIT
    /\ call.out.commits[1][2].Credit_Debit_Amount = None
    /\ call.out.commits[1][2].Payable_Merchant = Float(0)


\* C12: with a transaction type outside booking/refund/both, in a chunk that
\* reaches the row loop, every row counts as one failure and none is in the batch
\* handed to the commit call; the loop runs to the end of the chunk and the
\* result published has total_failed equal to the number of rows.  (Checked
\* under SpecChunk.)
C12_InvalidTypeFailsEachRow ==
    (/\ call.pc = "ret"
     /\ call.transaction_type \notin {"booking", "refund", "both"}
     /\ call.resolved.found
     /\ call.bank_name \in DOMAIN BANK_CODE_MAPPING
     /\ \A i \in 1..Len(call.resolved.columns_mapping.columns) :
           \E j \in 1..Len(call.columns) :
              clean_column_name(call.columns[j])
                 = clean_column_name(call.resolved.columns_mapping.columns[i]))
    => /\ call.out.commits = << <<>> >>
       /\ call.out.persisted = 0
       /\ call.out.publishes = <<[total_successful |-> 0, total_failed |-> Len(call.rows)]>>
       /\ cache = [total_successful |-> 0, total_failed |-> Len(call.rows)]

C12_Witness ==
    /\ call.pc = "ret"
    /\ call.bank_name = "icici" /\ call.transaction_type = "chargeback"
    /\ call.columns = icici_both.columns
    /\ call.rows = <<GoodRow, BadRow>>
    /\ call.store = "rejects"
    /\ call.out.commits = << <<>> >>
    /\ cache = [total_successful |-> 0, total_failed |-> 2]


C14_MidOverride ==
    (call.pc = "ret" /\ call.out.commits # <<>>)
    => \A k \in 1..Len(call.out.commits[1]) :
          LET df == call.df_chunk
              own == IF \E i \in 1..Len(df.columns) : df.columns[i] = <<"M", "I", "D">>
                     THEN df.data[k][CHOOSE i \in 1..Len(df.columns) :
                                        df.columns[i] = <<"M", "I", "D">>]
                     ELSE None
          IN  call.out.commits[1][k].MID
                 = IF call.bank_name \in {"hdfc", "icici", "indus"}
                   THEN own
                   ELSE PyInt(BANK_CODE_MAPPING[call.bank_name])

C14_Witness ==
    /\ call.pc = "ret"
    /\ call.bank_name = "karur_vysya" /\ call.transaction_type = "booking"
    /\ <<"M", "I", "D">> \in Range(call.df_chunk.columns)
    /\ Len(call.df_chunk.data) = MaxRows
    /\ call.out.commits # <<>>
    /\ Len(call.out.commits[1]) = MaxRows
    /\ call.out.commits[1][1].MID = PyInt(40)


\* C15: clean_column_name is idempotent: cleaning a cleaned header returns it
\* unchanged, whatever brackets and whitespace the header had.  (Checked under
\* SpecClean.)
C15_CleanIdempotent ==
    call.pc = "cleaned_again" => call.cleaned_again = call.cleaned_name


\* C16: no record handed to the commit call holds NaT in Transaction_Date,
\* Settlement_Date, Refund_Request_Date, Credit_Debit_Date or File_upload_Date:
\* a date that did not parse is null in the record, a date that parsed is a
\* timestamp, and the row is in the batch either way.  (Checked under SpecChunk.)
C16_NoNaTInBatch ==
    (call.pc = "ret" /\ call.out.commits # <<>>)
    => LET batch == call.out.commits[1]
       IN  /\ \A k \in 1..Len(batch) :
                 \A field \in {"Transaction_Date", "Settlement_Date", "Refund_Request_Date",
                               "Credit_Debit_Date", "File_upload_Date"} :
                    batch[k][field] # NaT
           /\ call.transaction_type \in {"booking", "refund", "both"}
              => /\ Len(batch) = Len(call.rows)
                 /\ \A k \in 1..Len(batch) :
                       IF call.rows[k] = BadRow
                       THEN /\ batch[k].Transaction_Date = None
                            /\ batch[k].Settlement_Date = None
                       ELSE /\ batch[k].Transaction_Date.t = "ts"
                            /\ batch[k].Settlement_Date.t = "ts"

C16_Witness ==
    /\ call.pc = "ret"
    /\ call.bank_name = "karur_vysya" /\ call.transaction_type = "refund"
    /\ call.rows = <<BadRow, GoodRow>>
    /\ call.out.commits # <<>>
    /\ Len(call.out.commits[1]) = 2
    /\ call.out.commits[1][1].Transaction_Date = None
    /\ call.out.commits[1][1].Settlement_Date = None
    /\ call.out.commits[1][2].Transaction_Date = Timestamp(<<2024, 11, 1>>)


\* C17: over the first run of a job and its retries, each chunk of each input
\* file is committed to the store at most once.  (Checked under SpecRetry.)
C17_CommittedAtMostOnce ==
    job.pc # "idle"
    => \A f \in 1..Len(job.file_formats) : \A c \in 1..MaxChunks : job.committed[f][c] <= 1


\* C18: every temporary file upload_files writes for a request is passed to the
\* task, the path list and the format list having the same length, and is deleted
\* by it; a request that sends no task, the one refused with status 400 included,
\* leaves no temporary file behind.  (Checked under SpecUpload.)
C18_NoTempFileLeftBehind ==
    response # None
    => /\ job.pc = "idle" => fs = {}
       /\ job.pc # "idle" => /\ Len(job.file_formats) = response.created
                             /\ Len(job.file_extensions) = response.created
                             /\ fs \subseteq 1..response.created
       /\ job.pc = "returned" => fs = {}

=============================================================================
